---- MODULE Spec2Model ----
(***************************************************************************)
(* Model of mkdocs_extrafiles.plugin.ExtraFilesPlugin: the path expander   *)
(* _expand_items and the three hooks on_config, on_files and on_serve.     *)
(*                                                                         *)
(* Strings are sequences of one-character strings, so that the string and  *)
(* pathlib operations of the code (is_absolute, endswith, rstrip, replace, *)
(* PurePosixPath parsing, joining and as_posix, glob matching) are         *)
(* computed character by character.  pathlib is modelled with its POSIX    *)
(* flavour (Path is PosixPath).                                            *)
(***************************************************************************)
EXTENDS Naturals, Sequences, FiniteSets, TLC

VARIABLES
    enabled,     \* self.config.enabled
    items,       \* self.config["files"]: sequence of [src, dest]
    fs,          \* the regular files that exist on disk (set of Paths)
    config_dir,  \* self.config_dir, NoDir while the attribute is not set
    files,       \* the Files collection last handed to on_files
    watched,     \* the paths registered with the server last handed to on_serve
    last,        \* outcome of the last hook call
    listing,     \* the order in which the file system lists its files
    gen          \* a generator object returned by _expand_items()

vars == <<enabled, items, fs, listing, config_dir, files, watched, last, gen>>

----------------------------------------------------------------------------
(* Bounds *)

\* longest dest string drawn for the expander
MaxDestLen == 3
\* longest config["files"] list drawn for the hooks
MaxItems == 2

----------------------------------------------------------------------------
(* str operations *)

SEP == "/"
BSL == "\\"

\* dest.replace("\\", "/")
ReplaceBackslash(s) == [i \in 1..Len(s) |-> IF s[i] = BSL THEN SEP ELSE s[i]]

\* dest.rstrip("/\\")
RECURSIVE RStripSeps(_)
RStripSeps(s) ==
    IF s = <<>> THEN s
    ELSE IF s[Len(s)] \in {SEP, BSL} THEN RStripSeps(SubSeq(s, 1, Len(s) - 1))
    ELSE s

\* dest.endswith(("/", "\\"))
EndsWithSep(s) == s # <<>> /\ s[Len(s)] \in {SEP, BSL}

\* s.split("/")
RECURSIVE SplitFrom(_, _, _)
SplitFrom(s, i, cur) ==
    IF i > Len(s) THEN <<cur>>
    ELSE IF s[i] = SEP THEN <<cur>> \o SplitFrom(s, i + 1, <<>>)
    ELSE SplitFrom(s, i + 1, Append(cur, s[i]))

\* "/".join(parts)
RECURSIVE JoinSlash(_)
JoinSlash(parts) ==
    IF parts = <<>> THEN <<>>
    ELSE IF Len(parts) = 1 THEN parts[1]
    ELSE parts[1] \o <<SEP>> \o JoinSlash(Tail(parts))

RECURSIVE LeadingSlashes(_)
LeadingSlashes(s) ==
    IF s # <<>> /\ s[1] = SEP THEN 1 + LeadingSlashes(Tail(s)) ELSE 0

----------------------------------------------------------------------------
(* pathlib, POSIX flavour: a path is [root, parts] *)

IsRealPart(seg) == seg # <<>> /\ seg # <<".">>

\* PurePosixPath(s) / Path(s): the root is "/" for one or for three and more
\* leading slashes and "//" for exactly two; empty and "." components are
\* dropped, ".." is kept.
PurePosixPath(s) ==
    LET n == LeadingSlashes(s) IN
    [root  |-> IF n = 0 THEN <<>> ELSE IF n = 2 THEN <<SEP, SEP>> ELSE <<SEP>>,
     parts |-> SelectSeq(SplitFrom(s, 1, <<>>), IsRealPart)]

\* PurePath.as_posix() / str(path)
as_posix(p) ==
    IF p.root = <<>> /\ p.parts = <<>> THEN <<".">>
    ELSE p.root \o JoinSlash(p.parts)

\* PurePath.is_absolute()
is_absolute(p) == p.root # <<>>

\* PurePath.__truediv__: p / q
Div(p, q) ==
    IF is_absolute(q) THEN q
    ELSE [root |-> p.root, parts |-> p.parts \o q.parts]

\* PurePath.name
PathName(p) == IF p.parts = <<>> THEN <<>> ELSE p.parts[Len(p.parts)]

\* PurePath.parent
PathParent(p) ==
    IF p.parts = <<>> THEN p
    ELSE [root |-> p.root, parts |-> SubSeq(p.parts, 1, Len(p.parts) - 1)]

\* Path.resolve() of an absolute path on a file system without symbolic
\* links: ".." components are folded into their parent.
RECURSIVE FoldDotDot(_, _)
FoldDotDot(parts, acc) ==
    IF parts = <<>> THEN acc
    ELSE IF parts[1] = <<".", ".">>
         THEN FoldDotDot(Tail(parts),
                         IF acc = <<>> THEN acc ELSE SubSeq(acc, 1, Len(acc) - 1))
         ELSE FoldDotDot(Tail(parts), Append(acc, parts[1]))

resolve(p) == [root |-> <<SEP>>, parts |-> FoldDotDot(p.parts, <<>>)]

\* the value of config_dir while the attribute has not been assigned
NoDir == [root |-> <<>>, parts |-> <<>>]

----------------------------------------------------------------------------
(* The file system: the tree the unit tests build under the configuration  *)
(* directory /c, with a file of the same name at two depths.               *)

CfgDir == PurePosixPath(<<"/", "c">>)
\* Path.cwd(), a directory that holds none of the files
CwdDir == PurePosixPath(<<"/", "w">>)

F_r   == PurePosixPath(<<"/", "c", "/", "r", ".", "t">>)
F_af  == PurePosixPath(<<"/", "c", "/", "a", "/", "f", ".", "t">>)
F_anf == PurePosixPath(<<"/", "c", "/", "a", "/", "n", "/", "f", ".", "t">>)
F_ani == PurePosixPath(<<"/", "c", "/", "a", "/", "n", "/", "i", ".", "b">>)

FsUniverse == {F_r, F_af, F_anf, F_ani}

\* a directory exists when it is a proper ancestor of an existing file
is_dir(p, fsys) ==
    \E f \in fsys : /\ f.root = p.root
                    /\ Len(p.parts) < Len(f.parts)
                    /\ SubSeq(f.parts, 1, Len(p.parts)) = p.parts

\* Path.is_file()
is_file(p, fsys) == p \in fsys

\* Path.exists()
exists(p, fsys) == p \in fsys \/ is_dir(p, fsys)

\* the orders in which the file system may list the files: every two files
\* come in either order
ListingOrders == {<<F_r, F_af, F_anf, F_ani>>, <<F_ani, F_anf, F_af, F_r>>}

\* directory nodes in listing order (they never reach the output: is_file drops them)
DirList ==
    <<PurePosixPath(<<"/">>), CfgDir,
      PurePosixPath(<<"/", "c", "/", "a">>),
      PurePosixPath(<<"/", "c", "/", "a", "/", "n">>)>>

----------------------------------------------------------------------------
(* glob.glob(pattern, recursive=True) *)

MagicChars == {"*", "?", "["}

\* any(ch in src for ch in ["*", "?", "["])  /  glob.has_magic
HasMagic(s) == \E i \in 1..Len(s) : s[i] \in MagicChars

\* fnmatch of one name against one pattern component; with no "]" in the
\* alphabet a "[" never opens a character class and matches itself
RECURSIVE FnMatch(_, _)
FnMatch(pat, name) ==
    IF pat = <<>> THEN name = <<>>
    ELSE IF pat[1] = "*"
         THEN FnMatch(Tail(pat), name) \/ (name # <<>> /\ FnMatch(pat, Tail(name)))
    ELSE IF pat[1] = "?"
         THEN name # <<>> /\ FnMatch(Tail(pat), Tail(name))
    ELSE name # <<>> /\ name[1] = pat[1] /\ FnMatch(Tail(pat), Tail(name))

IsHidden(name) == name # <<>> /\ name[1] = "."

SegMatch(pat, name) ==
    IF HasMagic(pat)
    THEN (IsHidden(name) => IsHidden(pat)) /\ FnMatch(pat, name)
    ELSE pat = name

\* a component that is exactly "**" stands for zero or more directories
RECURSIVE SegsMatch(_, _)
SegsMatch(pat, path) ==
    IF pat = <<>> THEN path = <<>>
    ELSE IF pat[1] = <<"*", "*">>
         THEN SegsMatch(Tail(pat), path)
              \/ (path # <<>> /\ ~IsHidden(path[1]) /\ SegsMatch(pat, Tail(path)))
    ELSE path # <<>> /\ SegMatch(pat[1], path[1]) /\ SegsMatch(Tail(pat), Tail(path))

\* the existing nodes the parsed pattern matches, in listing order
GlobNodes(pat, fsys, ord) ==
    LET Hit(p) == /\ p.root = pat.root
                  /\ SegsMatch(pat.parts, p.parts)
                  /\ exists(p, fsys)
    IN SelectSeq(DirList \o ord, Hit)

glob(pattern, fsys, ord) == GlobNodes(PurePosixPath(pattern), fsys, ord)

----------------------------------------------------------------------------
(* _expand_items: the body run for one item of config["files"] *)

\* Path(dest).is_absolute()
DestIsAbsolute_NoCheck(dest) == FALSE

DestIsAbsolute(dest) == is_absolute(PurePosixPath(dest))

\* dest.endswith(("/", "\\"))
GlobDestIsDir_NoCheck(dest) == TRUE

GlobDestIsDir(dest) == EndsWithSep(dest)

\* rel_name = s.name; (PurePosixPath(dest.rstrip("/\\")) / rel_name).as_posix()
GlobDestUri(dest, s) ==
    as_posix(Div(PurePosixPath(RStripSeps(dest)), PurePosixPath(PathName(s))))

\* PurePosixPath(dest.replace("\\", "/")).as_posix()
LiteralDestUri_NoReplace(dest) == as_posix(PurePosixPath(dest))

LiteralDestUri(dest) == as_posix(PurePosixPath(ReplaceBackslash(dest)))

\* self.config_dir raises AttributeError while the attribute is not set
NeedsConfigDir(src) == ~is_absolute(PurePosixPath(src))

\* s = Path(src); if not s.is_absolute(): s = self.config_dir / s; s.resolve()
ResolveSrc(src, cdir) ==
    IF is_absolute(PurePosixPath(src)) THEN resolve(PurePosixPath(src))
    ELSE resolve(Div(cdir, PurePosixPath(src)))

\* pattern = src, or str((self.config_dir / pattern).resolve()) when relative
GlobPattern(src, cdir) ==
    IF is_absolute(PurePosixPath(src)) THEN src
    ELSE as_posix(resolve(Div(cdir, PurePosixPath(src))))

\* [Path(p).resolve() for p in glob(pattern, recursive=True)], then the
\* loop that keeps the regular files and yields (s, dest_uri)
RECURSIVE GlobPairs(_, _, _)
GlobPairs(matched, dest, fsys) ==
    IF matched = <<>> THEN <<>>
    ELSE LET s == resolve(matched[1]) IN
         (IF is_file(s, fsys)
          THEN <<[src |-> s, uri |-> GlobDestUri(dest, s)]>>
          ELSE <<>>) \o GlobPairs(Tail(matched), dest, fsys)

\* one iteration of "for item in self.config['files']": the error it raises,
\* or the pairs it yields, in order
ExpandEntry(item, cdir, fsys, ord) ==
    IF DestIsAbsolute(item.dest)
    THEN [err |-> "ValueError", pairs |-> <<>>]
    ELSE IF HasMagic(item.src)
    THEN IF ~GlobDestIsDir(item.dest)
         THEN [err |-> "ValueError", pairs |-> <<>>]
         ELSE IF NeedsConfigDir(item.src) /\ cdir = NoDir
         THEN [err |-> "AttributeError", pairs |-> <<>>]
         ELSE [err |-> "none",
               pairs |-> GlobPairs(glob(GlobPattern(item.src, cdir), fsys, ord),
                                   item.dest, fsys)]
    ELSE IF NeedsConfigDir(item.src) /\ cdir = NoDir
         THEN [err |-> "AttributeError", pairs |-> <<>>]
         ELSE [err |-> "none",
               pairs |-> <<[src |-> ResolveSrc(item.src, cdir),
                            uri |-> LiteralDestUri(item.dest)]>>]

----------------------------------------------------------------------------
(* _expand_items as a generator object.  status is "suspended" at a yield  *)
(* (and before the first next()), "done" after StopIteration, or the name  *)
(* of the exception that ended it.  idx is the item being processed,       *)
(* pending the pairs that item has still to yield, out the pairs yielded   *)
(* so far, each with the index of the item that produced it.               *)

NewGen == [status |-> "suspended", idx |-> 0, pending |-> <<>>, out |-> <<>>]

NoGen == [status |-> "none", idx |-> 0, pending |-> <<>>, out |-> <<>>]

Tagged(pair, i) == [item |-> i, src |-> pair.src, uri |-> pair.uri]

\* the code run from the top of the for loop at item i to the next yield,
\* raise or the end of the list
RECURSIVE RunFrom(_, _, _, _, _, _)
RunFrom(g, i, its, cdir, fsys, ord) ==
    IF i > Len(its)
    THEN [g EXCEPT !.status = "done", !.idx = i, !.pending = <<>>]
    ELSE LET r == ExpandEntry(its[i], cdir, fsys, ord) IN
         IF r.err # "none"
         THEN [g EXCEPT !.status = r.err, !.idx = i, !.pending = <<>>]
         ELSE IF r.pairs = <<>>
         THEN RunFrom(g, i + 1, its, cdir, fsys, ord)
         ELSE [status  |-> "suspended",
               idx     |-> i,
               pending |-> Tail(r.pairs),
               out     |-> Append(g.out, Tagged(r.pairs[1], i))]

\* next(gen)
GenResume(g, its, cdir, fsys, ord) ==
    IF g.status # "suspended" THEN g
    ELSE IF g.pending # <<>>
    THEN [g EXCEPT !.pending = Tail(g.pending),
                   !.out = Append(g.out, Tagged(g.pending[1], g.idx))]
    ELSE RunFrom(g, g.idx + 1, its, cdir, fsys, ord)

\* the pair the generator is suspended at
Yielded(g) == g.out[Len(g.out)]

----------------------------------------------------------------------------
(* The host objects the hooks are handed *)

NoPath == <<>>

\* an object handed to or returned by a hook: the MkDocsConfig with its
\* config_file_path, the Files collection with its entries, or the server
ConfigObj(cfp) == [kind |-> "config", config_file_path |-> cfp, entries |-> <<>>]
FilesObj(coll) == [kind |-> "files", config_file_path |-> NoPath, entries |-> coll]
ServerObj == [kind |-> "server", config_file_path |-> NoPath, entries |-> <<>>]

\* config_file_path is None or /c/m
ConfigFilePaths == {NoPath, <<"/", "c", "/", "m">>}

\* a File found by the documentation tree scan (n tells the objects apart)
DocsDir == PurePosixPath(<<"/", "d">>)
ScannedFile(uri, n) ==
    [uri |-> uri, abs_src |-> as_posix(Div(DocsDir, PurePosixPath(uri))),
     generated |-> FALSE, n |-> n]

\* File.generated(config, dest_uri, abs_src_path=str(src)), the n-th one staged
GeneratedFile(pair, n) ==
    [uri |-> pair.uri, abs_src |-> as_posix(pair.src), generated |-> TRUE, n |-> n]

\* files.get_file_from_path(dest_uri): index of the entry at that URI, 0 for None
get_file_from_path(coll, uri) ==
    LET hits == {k \in 1..Len(coll) : coll[k].uri = uri} IN
    IF hits = {} THEN 0 ELSE CHOOSE k \in hits : \A j \in hits : j <= k

\* files.remove(existing)
RemoveAt(coll, k) == SubSeq(coll, 1, k - 1) \o SubSeq(coll, k + 1, Len(coll))

----------------------------------------------------------------------------
(* on_files *)

\* the loop body after the existence check: drop the entry already at
\* dest_uri, append the generated one
StageOne_NoRemove(coll, pair, n) == Append(coll, GeneratedFile(pair, n))

StageOne_FirstWins(coll, pair, n) ==
    LET k == get_file_from_path(coll, pair.uri) IN
    IF k # 0 /\ coll[k].generated THEN coll
    ELSE Append(IF k # 0 THEN RemoveAt(coll, k) ELSE coll, GeneratedFile(pair, n))

StageOne(coll, pair, n) ==
    LET k == get_file_from_path(coll, pair.uri) IN
    Append(IF k # 0 THEN RemoveAt(coll, k) ELSE coll, GeneratedFile(pair, n))

\* "for src, dest_uri in self._expand_items()": how the loop ends, the
\* collection as it then is, and the generator
RECURSIVE FilesLoop(_, _, _, _, _, _, _)
FilesLoop(g, coll, staged, its, cdir, fsys, ord) ==
    LET g2 == GenResume(g, its, cdir, fsys, ord) IN
    IF g2.status = "suspended"
    THEN IF ~exists(Yielded(g2).src, fsys)
         THEN [outcome |-> "FileNotFoundError", coll |-> coll, gen |-> g2]
         ELSE FilesLoop(g2, StageOne(coll, Yielded(g2), staged + 1), staged + 1,
                        its, cdir, fsys, ord)
    ELSE [outcome |-> IF g2.status = "done" THEN "returned" ELSE g2.status,
          coll |-> coll, gen |-> g2]

\* the collections the host hands to on_files: files found by the tree scan,
\* at most one per URI
U_er == <<"e", "/", "r", ".", "t">>
U_ef == <<"e", "/", "f", ".", "t">>
U_k  == <<"k", ".", "t">>

InputCollections ==
    {<<>>,
     <<ScannedFile(U_ef, 1), ScannedFile(U_k, 2)>>,
     <<ScannedFile(U_k, 1), ScannedFile(U_er, 2), ScannedFile(U_ef, 3)>>}

OnFiles ==
    \E input \in InputCollections :
        LET r == FilesLoop(NewGen, input, 0, items, config_dir, fs, listing) IN
        /\ files' = r.coll
        /\ last' = [hook |-> "on_files", outcome |-> r.outcome,
                    arg |-> FilesObj(input), ret |-> FilesObj(r.coll),
                    pairs |-> r.gen.out, caught |-> "none"]
        /\ UNCHANGED <<enabled, items, fs, listing, config_dir, watched, gen>>

----------------------------------------------------------------------------
(* on_config *)

\* Path(config_path).resolve().parent if config_path else Path.cwd()
ConfigDirFor(cfp) ==
    IF cfp # NoPath THEN PathParent(resolve(PurePosixPath(cfp))) ELSE CwdDir

OnConfig ==
    \E cfp \in ConfigFilePaths :
        /\ config_dir' = IF ~enabled THEN config_dir ELSE ConfigDirFor(cfp)
        /\ last' = [hook |-> "on_config", outcome |-> "returned",
                    arg |-> ConfigObj(cfp), ret |-> ConfigObj(cfp),
                    pairs |-> <<>>, caught |-> "none"]
        /\ UNCHANGED <<enabled, items, fs, listing, files, watched, gen>>

----------------------------------------------------------------------------
(* on_serve *)

\* if src.exists():
WatchWanted(src, fsys) == exists(src, fsys)

\* except Exception: pass; return server
ServeOutcome_Propagates(exc) == IF exc = "none" THEN "returned" ELSE exc

ServeOutcome(exc) == "returned"

\* the watch call that raises, counted from 1; 0 when none does
WatchFailures == {0, 1, 2}

\* the try block: the paths registered, the exception that ended it if any
RECURSIVE ServeLoop(_, _, _, _, _, _, _)
ServeLoop(g, reg, failAt, its, cdir, fsys, ord) ==
    LET g2 == GenResume(g, its, cdir, fsys, ord) IN
    IF g2.status = "suspended"
    THEN IF WatchWanted(Yielded(g2).src, fsys)
         THEN IF Len(reg) + 1 = failAt
              THEN [exc |-> "WatchError", reg |-> reg, gen |-> g2]
              ELSE ServeLoop(g2, Append(reg, as_posix(Yielded(g2).src)), failAt,
                             its, cdir, fsys, ord)
         ELSE ServeLoop(g2, reg, failAt, its, cdir, fsys, ord)
    ELSE [exc |-> IF g2.status = "done" THEN "none" ELSE g2.status,
          reg |-> reg, gen |-> g2]

OnServe ==
    \E failAt \in WatchFailures :
        LET r == ServeLoop(NewGen, <<>>, failAt, items, config_dir, fs, listing) IN
        /\ watched' = r.reg
        /\ last' = [hook |-> "on_serve", outcome |-> ServeOutcome(r.exc),
                    arg |-> ServerObj, ret |-> ServerObj,
                    pairs |-> r.gen.out, caught |-> r.exc]
        /\ UNCHANGED <<enabled, items, fs, listing, config_dir, files, gen>>

----------------------------------------------------------------------------
(* The plugin under the host: any hook, in any order *)

NoCall == [hook |-> "none", outcome |-> "none", arg |-> ServerObj, ret |-> ServerObj,
           pairs |-> <<>>, caught |-> "none"]

Item(src, dest) == [src |-> src, dest |-> dest]

\* the entries of the unit tests: a relative file, an absolute file whose
\* dest is written with a backslash and names the same URI, a recursive
\* glob, an entry with an absolute dest
ItemChoices ==
    {Item(<<"r", ".", "t">>, <<"e", "/", "r", ".", "t">>),
     Item(<<"/", "c", "/", "a", "/", "n", "/", "i", ".", "b">>, <<"e", BSL, "r", ".", "t">>),
     Item(<<"a", "/", "*", "*", "/", "*", ".", "t">>, <<"e", "/">>),
     Item(<<"a", "/", "f", ".", "t">>, <<"/", "z">>)}

ItemLists == UNION {[1..n -> ItemChoices] : n \in 0..MaxItems}

FsChoices == {FsUniverse, {F_r}, FsUniverse \ {F_r}, {F_af, F_anf}}

Init ==
    /\ enabled \in BOOLEAN
    /\ items \in ItemLists
    /\ fs \in FsChoices
    /\ listing \in ListingOrders
    /\ config_dir = NoDir
    /\ files = <<>>
    /\ watched = <<>>
    /\ last = NoCall
    /\ gen = NoGen

Next == OnConfig \/ OnFiles \/ OnServe

Spec == Init /\ [][Next]_vars

----------------------------------------------------------------------------
(* The expander alone: _expand_items() called and consumed with next(),    *)
(* over every dest string up to MaxDestLen.                                *)

DestAlphabet == {SEP, BSL, "e", "."}

DestStrings == UNION {[1..n -> DestAlphabet] : n \in 0..MaxDestLen}

\* a relative and an absolute file, a path with "..", a recursive glob, a
\* glob that also matches a directory, a glob that matches nothing, a
\* pattern whose only magic character is an unclosed bracket
SrcChoices ==
    {<<"r", ".", "t">>,
     <<"/", "c", "/", "a", "/", "f", ".", "t">>,
     <<"a", "/", "n", "/", ".", ".", "/", "f", ".", "t">>,
     <<"a", "/", "*", "*", "/", "*", ".", "t">>,
     <<"/", "c", "/", "a", "/", "*">>,
     <<"a", "/", "?", ".", "q">>,
     <<"r", "[">>}

\* an entry that yields one pair, to stand before the entry under study
PrefixItem == Item(<<"/", "c", "/", "r", ".", "t">>, <<"e">>)

ExpandLists ==
    {<<Item(s, d)>> : s \in SrcChoices, d \in DestStrings}
    \cup {<<PrefixItem, Item(s, d)>> : s \in SrcChoices, d \in DestStrings}

ExpandFsChoices == {FsUniverse, {F_r, F_anf}, {}}

InitExpand ==
    /\ enabled = TRUE
    /\ items \in ExpandLists
    /\ fs \in ExpandFsChoices
    /\ listing \in ListingOrders
    /\ config_dir \in {NoDir, CfgDir}
    /\ files = <<>>
    /\ watched = <<>>
    /\ last = NoCall
    /\ gen = NoGen

\* gen = self._expand_items(): no line of the body runs yet
CallExpandItems ==
    /\ gen.status # "suspended"
    /\ gen' = NewGen
    /\ UNCHANGED <<enabled, items, fs, listing, config_dir, files, watched, last>>

\* next(gen)
NextPair ==
    /\ gen.status = "suspended"
    /\ gen' = GenResume(gen, items, config_dir, fs, listing)
    /\ UNCHANGED <<enabled, items, fs, listing, config_dir, files, watched, last>>

NextExpand == CallExpandItems \/ NextPair

SpecExpand == InitExpand /\ [][NextExpand]_vars

----------------------------------------------------------------------------
(* Properties of the expander, checked under SpecExpand *)

\* the generator has run the loop body for item i
Reached(i) == gen.status # "none" /\ gen.idx >= i

\* the pairs item i has yielded
OutOf(i) == {k \in 1..Len(gen.out) : gen.out[k].item = i}

StartsWithSlash(s) == s # <<>> /\ s[1] = "/"

IsGlobSrc(s) == \E k \in 1..Len(s) : s[k] = "*" \/ s[k] = "?" \/ s[k] = "["

RaisedAt(i, exc) == gen.status = exc /\ gen.idx = i

\* the glob root: the directory named by the components of the pattern
\* before the first one with a magic character
RECURSIVE RootLen(_)
RootLen(parts) ==
    IF parts = <<>> \/ IsGlobSrc(parts[1]) THEN 0 ELSE 1 + RootLen(Tail(parts))

PatternOf(i) == PurePosixPath(GlobPattern(items[i].src, config_dir))

MatchedFiles(i) ==
    {f \in fs : f.root = PatternOf(i).root /\ SegsMatch(PatternOf(i).parts, f.parts)}

\* dest directory joined with the path of f relative to the glob root
RelativeUri(i, f) ==
    LET n == RootLen(PatternOf(i).parts)
        rel == [root |-> <<>>, parts |-> SubSeq(f.parts, n + 1, Len(f.parts))]
    IN as_posix(Div(PurePosixPath(RStripSeps(items[i].dest)), rel))

\* C4: once a glob entry has been expanded, its pairs are exactly one per
\* matched regular file, with the URI dest directory / path relative to the
\* glob root, and two matched files never share a URI.
C4_GlobKeepsRelativePath ==
    gen.status = "done" =>
        \A i \in 1..Len(items) :
            IsGlobSrc(items[i].src) =>
                /\ {<<gen.out[k].src, gen.out[k].uri>> : k \in OutOf(i)}
                     = {<<f, RelativeUri(i, f)>> : f \in MatchedFiles(i)}
                /\ \A k1, k2 \in OutOf(i) :
                       gen.out[k1].src # gen.out[k2].src
                           => gen.out[k1].uri # gen.out[k2].uri

\* C5: no URI the generator yields begins with a forward slash.
C5_UrisRelative ==
    \A k \in 1..Len(gen.out) : ~StartsWithSlash(gen.out[k].uri)

\* C6: an entry whose dest is absolute never yields a pair, and the
\* generator raises ValueError at it when it gets there, for a literal and
\* for a glob src, with or without a trailing separator.
C6_AbsoluteDestRejected ==
    \A i \in 1..Len(items) :
        StartsWithSlash(items[i].dest) =>
            /\ OutOf(i) = {}
            /\ Reached(i) => RaisedAt(i, "ValueError")

C6_Witness ==
    \E i \in 1..Len(items) :
        /\ StartsWithSlash(items[i].dest)
        /\ IsGlobSrc(items[i].src)
        /\ EndsWithSep(items[i].dest)
        /\ i = 2
        /\ RaisedAt(i, "ValueError")

\* C7: a glob entry whose relative dest does not end with a separator never
\* yields a pair, and the generator raises ValueError at it when it gets
\* there, also when the pattern matches no file.
C7_GlobNeedsDirectoryDest ==
    \A i \in 1..Len(items) :
        (/\ IsGlobSrc(items[i].src)
         /\ ~StartsWithSlash(items[i].dest)
         /\ ~EndsWithSep(items[i].dest)) =>
            /\ OutOf(i) = {}
            /\ Reached(i) => RaisedAt(i, "ValueError")

C7_Witness ==
    \E i \in 1..Len(items) :
        /\ IsGlobSrc(items[i].src)
        /\ ~StartsWithSlash(items[i].dest)
        /\ items[i].dest # <<>>
        /\ ~EndsWithSep(items[i].dest)
        /\ MatchedFiles(i) = {}
        /\ config_dir # NoDir
        /\ RaisedAt(i, "ValueError")

\* a literal entry with a relative dest
IsLiteralEntry(i) ==
    ~IsGlobSrc(items[i].src) /\ ~StartsWithSlash(items[i].dest)

\* src can be resolved: it is absolute, or config_dir has been set
Resolvable(i) == StartsWithSlash(items[i].src) \/ config_dir # NoDir

ResolvedSrc(i) ==
    resolve(IF StartsWithSlash(items[i].src) THEN PurePosixPath(items[i].src)
            ELSE Div(config_dir, PurePosixPath(items[i].src)))

\* s with empty and "." components and a trailing slash dropped, "." when
\* nothing is left
PosixNormalForm(s) == as_posix(PurePosixPath(s))

\* C8 as stated, with config_dir set: a literal entry with a relative dest
\* yields exactly one pair, the resolved source with dest in which every
\* backslash is replaced by a forward slash.
C8_LiteralDestVerbatim ==
    \A i \in 1..Len(items) :
        (IsLiteralEntry(i) /\ Reached(i) /\ config_dir # NoDir) =>
            /\ Cardinality(OutOf(i)) = 1
            /\ \A k \in OutOf(i) :
                   /\ gen.out[k].src = ResolvedSrc(i)
                   /\ gen.out[k].uri = ReplaceBackslash(items[i].dest)

\* C8 amended: a literal entry with a relative dest that the generator
\* reaches yields exactly one pair, whether or not the source exists: the
\* resolved source with the POSIX normal form of dest in which every
\* backslash is replaced by a forward slash; when src is relative and
\* config_dir was never set it raises AttributeError there and yields nothing.
C8_LiteralDestNormalised ==
    \A i \in 1..Len(items) :
        (IsLiteralEntry(i) /\ Reached(i)) =>
            IF Resolvable(i)
            THEN /\ Cardinality(OutOf(i)) = 1
                 /\ \A k \in OutOf(i) :
                        /\ gen.out[k].src = ResolvedSrc(i)
                        /\ is_absolute(gen.out[k].src)
                        /\ gen.out[k].uri
                             = PosixNormalForm(ReplaceBackslash(items[i].dest))
            ELSE OutOf(i) = {} /\ RaisedAt(i, "AttributeError")

C8_Witness ==
    \E i \in 1..Len(items) :
        /\ IsLiteralEntry(i)
        /\ ~StartsWithSlash(items[i].src)
        /\ \E k \in OutOf(i) :
              /\ ~exists(gen.out[k].src, fs)
              /\ gen.out[k].uri # ReplaceBackslash(items[i].dest)
              /\ \E j \in 1..Len(items[i].dest) : items[i].dest[j] = BSL
        /\ gen.status = "done"

----------------------------------------------------------------------------
(* Properties of the hooks, checked under Spec *)

FilesReturned == last.hook = "on_files" /\ last.outcome = "returned"

\* the collection on_files was handed
FilesIn == last.arg.entries

EntriesAt(coll, uri) == {m \in 1..Len(coll) : coll[m].uri = uri}

\* C1: when on_files raises the source-not-found error, the collection is
\* the one that was passed in.
C1_NoMutationBeforeNotFound ==
    (last.hook = "on_files" /\ last.outcome = "FileNotFoundError")
        => files = FilesIn

\* C2: when on_files returns, every entry of the input collection that sat
\* at the URI of an expanded pair is gone, and the entry now found at that
\* URI is a generated one bound to the source of a pair with that URI.
C2_ExistingEntriesReplaced ==
    FilesReturned =>
        \A k \in 1..Len(last.pairs) : \A j \in 1..Len(FilesIn) :
            FilesIn[j].uri = last.pairs[k].uri =>
                /\ \A m \in 1..Len(files) : files[m] # FilesIn[j]
                /\ LET m == get_file_from_path(files, last.pairs[k].uri) IN
                   /\ m # 0
                   /\ files[m].generated
                   /\ \E k2 \in 1..Len(last.pairs) :
                          /\ last.pairs[k2].uri = files[m].uri
                          /\ files[m].abs_src = as_posix(last.pairs[k2].src)

C2_Witness ==
    /\ FilesReturned
    /\ \E k \in 1..Len(last.pairs) : \E j \in 1..Len(FilesIn) :
           FilesIn[j].uri = last.pairs[k].uri
    /\ \E j \in 1..Len(FilesIn) : \E m \in 1..Len(files) : files[m] = FilesIn[j]

\* C3: on_serve returns the server it was given whatever happens in the
\* loop, and every path it registered is the source of an expanded pair
\* that exists; a pair whose source is missing is not registered.
C3_ServeNeverRaises ==
    last.hook = "on_serve" =>
        /\ last.outcome = "returned"
        /\ last.ret = last.arg
        /\ \A w \in 1..Len(watched) :
               \E k \in 1..Len(last.pairs) :
                   /\ watched[w] = as_posix(last.pairs[k].src)
                   /\ exists(last.pairs[k].src, fs)
        /\ \A k \in 1..Len(last.pairs) :
               ~exists(last.pairs[k].src, fs) =>
                   \A w \in 1..Len(watched) :
                       watched[w] # as_posix(last.pairs[k].src)

C3_Witness ==
    /\ last.hook = "on_serve"
    /\ last.caught = "ValueError"
    /\ last.outcome = "returned"
    /\ \E k \in 1..Len(last.pairs) : ~exists(last.pairs[k].src, fs)

\* C9: while the plugin is disabled, on_config returns its argument and
\* leaves config_dir unset, on_files returns the collection as it was
\* handed in, and on_serve registers nothing.
C9_DisabledDoesNothing ==
    ~enabled =>
        /\ config_dir = NoDir
        /\ last.hook = "on_config" => last.ret = last.arg
        /\ last.hook = "on_files" =>
               last.outcome = "returned" /\ files = FilesIn
        /\ last.hook = "on_serve" => watched = <<>>

\* C10: when on_files returns, the collection holds exactly one entry at
\* the URI of each expanded pair, bound to the source of the last pair
\* with that URI.
C10_LastPairWins ==
    FilesReturned =>
        \A k \in 1..Len(last.pairs) :
            LET u == last.pairs[k].uri
                final == CHOOSE k2 \in 1..Len(last.pairs) :
                             /\ last.pairs[k2].uri = u
                             /\ \A k3 \in 1..Len(last.pairs) :
                                    last.pairs[k3].uri = u => k3 <= k2
            IN /\ Cardinality(EntriesAt(files, u)) = 1
               /\ \A m \in EntriesAt(files, u) :
                      /\ files[m].generated
                      /\ files[m].abs_src = as_posix(last.pairs[final].src)

C10_Witness ==
    /\ FilesReturned
    /\ \E k1, k2 \in 1..Len(last.pairs) :
           /\ k1 < k2
           /\ last.pairs[k1].uri = last.pairs[k2].uri
           /\ last.pairs[k1].src # last.pairs[k2].src
           /\ last.pairs[k1].item # last.pairs[k2].item
           /\ \E j \in 1..Len(FilesIn) : FilesIn[j].uri = last.pairs[k1].uri

====
